---- MODULE Spec2Model ----
(***************************************************************************)
(* The real-time synchronisation core of cartographer: the websocket Hub   *)
(* (internal/api/websocket/hub.go), its Client sessions (client.go) and    *)
(* the upgrade handler (handler.go).                                       *)
(*                                                                         *)
(* Goroutines are modelled as processes with a program counter each: the   *)
(* hub loop (Hub.Run), one upgrade handler, one reader (ReadPump) and one  *)
(* writer (WritePump) per session, a producer inside BroadcastToFiltered,  *)
(* and callers of BroadcastMessage, Client.Send and Shutdown.  A Go panic  *)
(* (send on a closed channel, close of a closed channel) and a fatal       *)
(* runtime error end the process: `panicked` records it and every action   *)
(* is disabled afterwards.                                                 *)
(***************************************************************************)
EXTENDS Integers, Sequences, FiniteSets, TLC

\* ------------------------------------------------------------- bounds
\* Capacity of a session's outbound queue (256 in client.go:48).
QueueCap == 2
\* Capacity of the hub's relay (256 in hub.go:40).
RelayCap == 2
\* Number of events the environment supplies in one run: connection
\* requests, Broadcast* calls, inbound frames, Client.Send calls, Shutdown
\* calls and transport failures together.
MaxInputs == 5

Clients == {"c1", "c2"}
Keys == {"project_id", "board_id"}
\* The query parameters <<project_id, board_id>> each connection asks for
\* ("" = parameter absent): one scoped session and one unscoped session.
Query == [c \in Clients |-> IF c = "c1" THEN <<"p1", "">> ELSE <<"", "">>]
\* Values a producer passes to BroadcastToFiltered.
FilterValues == {"", "p1", "p2"}
\* Kinds of inbound frame the reader distinguishes.
FrameKinds == {"ping", "pong", "invalid", "other"}

\* Request methods: the one the handler accepts and another.
Methods == {"GET", "POST"}

VARIABLES
    hubPc,      \* Hub.Run: "init" (not started), "select", "bcast", "done"
    hubMsg,     \* the envelope broadcastToAll is delivering
    hubVisit,   \* sessions broadcastToAll has still to visit
    clients,    \* h.clients
    broadcast,  \* h.broadcast, the relay
    shutdown,   \* h.shutdown is closed
    regWait,    \* sessions whose handler is blocked in h.register <- client
    apiReg,     \* sessions a RegisterClient caller is blocked sending
    apiUnreg,   \* sessions an UnregisterClient caller is blocked sending
    send,       \* c.send, per session
    closed,     \* c.send is closed, per session
    filters,    \* c.filters, per session
    hPc,        \* ServeHTTP per session: "none", "registering", "registered", "serving"
    rPc,        \* ReadPump per session: "off", "read", "unreg", "done"
    wPc,        \* WritePump per session: "off", "idle", "wrote", "coalesce", "done"
    wN,         \* WritePump's n, the number of queued envelopes to coalesce
    written,    \* envelopes written to the session's transport, in order
    sPc,        \* a Client.Send caller per session: "idle", "unreg"
    fPc,        \* BroadcastToFiltered: "idle", "iter"
    fMsg,       \* the envelope BroadcastToFiltered is delivering
    fVisit,     \* sessions BroadcastToFiltered has still to visit
    nextId,     \* identity of the next envelope a producer passes to Broadcast*
    dropped,    \* identities of envelopes BroadcastMessage dropped (relay full)
    missed,     \* <<session, id>>: the delivery of id evicted the session
    inputs,     \* environment events so far
    nAdded,     \* register requests the loop handled that added a session
    nRemoved,   \* unregister requests the loop handled that found the session
    ret,        \* what the last BroadcastMessage / Broadcast* call returned:
                \* "none" (no call yet), "nil", "error"
    resp,       \* the handler's answer to the session's last request: "none",
                \* "405", "upgrade failed", "switched"
    msg,        \* what the last kind-specific constructor returned
    parsed,     \* the envelope parsed back from the serialization of msg
    enq,        \* every envelope sent onto c.send so far, per session, in order
    wOpen,      \* len(c.send) when WritePump opened the frame it is writing
    restOp,     \* the REST handler serving the current request, "none" if none
    restPc,     \* its position: "idle", "decode", "store", "cast", "done"
    restHub,    \* h.wsHub != nil for the handler serving the request
    restCommitted, \* the request's repository write succeeded
    restCalls,  \* Broadcast* calls the request's handler has issued
    restStatus, \* the status the handler answered with, 0 if not yet
    panicked    \* "none", or the panic / fatal error that ended the process:
                \* "send on closed queue", "close of closed queue" (a session's
                \* c.send), "close of closed shutdown" (h.shutdown),
                \* "concurrent map iteration and map write"

vars == <<hubPc, hubMsg, hubVisit, clients, broadcast, shutdown, regWait, apiReg,
          apiUnreg, send, closed, filters, hPc, rPc, wPc, wN, written, sPc, fPc,
          fMsg, fVisit, nextId, dropped, missed, inputs, nAdded, nRemoved,
          ret, resp, msg, parsed, panicked, enq, wOpen, restOp, restPc,
          restHub, restCommitted, restCalls, restStatus>>

hubVars == <<hubPc, hubMsg, hubVisit, clients, broadcast, shutdown, regWait, apiReg,
            apiUnreg, nAdded, nRemoved>>
sessVars == <<send, closed, filters, hPc, rPc, wPc, wN, written, sPc>>
filtVars == <<fPc, fMsg, fVisit>>
histVars == <<nextId, dropped, missed, inputs>>
callVars == <<ret, resp>>
msgVars == <<msg, parsed>>
auxVars == <<enq, wOpen>>
restVars == <<restOp, restPc, restHub, restCommitted, restCalls, restStatus>>

\* ------------------------------------------------------------ envelopes
NoMsg == [id |-> 0, via |-> "none", key |-> "", val |-> ""]
RelayMsg(i) == [id |-> i, via |-> "relay", key |-> "", val |-> ""]
FilteredMsg(i, k, v) == [id |-> i, via |-> "filtered", key |-> k, val |-> v]
PongMsg == [id |-> 0, via |-> "pong", key |-> "", val |-> ""]
ErrorMsg == [id |-> 0, via |-> "error", key |-> "", val |-> ""]
SendMsg == [id |-> 0, via |-> "send", key |-> "", val |-> ""]

NoFilter == [k \in {} |-> ""]

\* ------------------------------------------------------------ messages
\* Go values handed to the constructors as an entity (interface{}) or held in
\* a changes map (map[string]interface{}): [dyn: the dynamic type, text: the
\* text of a scalar, entries: the entries of a map].
NoEntries == [k \in {} |-> ""]
GoNil == [dyn |-> "nil", text |-> "", entries |-> NoEntries]
GoString(s) == [dyn |-> "string", text |-> s, entries |-> NoEntries]
GoInt(d) == [dyn |-> "int", text |-> d, entries |-> NoEntries]
GoFloat(d) == [dyn |-> "float64", text |-> d, entries |-> NoEntries]
GoChan == [dyn |-> "chan", text |-> "", entries |-> NoEntries]
GoNilMap == [dyn |-> "nilmap", text |-> "", entries |-> NoEntries]
GoMap(entries) == [dyn |-> "map", text |-> "", entries |-> entries]

\* A string holding a byte that is not valid UTF-8, and what encoding/json
\* writes for it (the byte replaced by U+FFFD).
BadUtf8 == "t<ff>"
ToValidUTF8(s) == IF s = BadUtf8 THEN "t<fffd>" ELSE s

\* An integer float64 cannot hold (2^53 + 1), and the float64 nearest to a
\* number read from JSON into an interface{}.
BigInt == "9007199254740993"
Float64Of(d) == IF d = BigInt THEN "9007199254740992" ELSE d

\* Inputs of the constructors.
Ids == {"t1", BadUtf8}
ErrorCodes == {"INVALID_MESSAGE"}
Entities == {GoNil, GoString("e"), GoInt("7"), GoInt(BigInt), GoChan,
             GoMap([title |-> GoString("e")])}
ChangeSets == {GoNilMap, GoMap(NoEntries), GoMap([title |-> GoInt("7")]),
               GoMap([title |-> GoChan])}

\* Payloads handed to the typed Broadcast* helpers: one that is absent, one
\* that encodes and one that does not.
HelperEntities == {GoNil, GoString("e"), GoChan}
HelperChanges == {GoNilMap, GoMap([title |-> GoInt("7")]),
                  GoMap([title |-> GoChan])}

\* JSON texts: [j: the kind of value, lit: a scalar's text, members: an
\* object's members].  JOmitted stands for a member left out (omitempty),
\* JError for json.Marshal returning an error.
JNull == [j |-> "null", lit |-> "", members |-> NoEntries]
JString(s) == [j |-> "string", lit |-> s, members |-> NoEntries]
JNumber(d) == [j |-> "number", lit |-> d, members |-> NoEntries]
JObject(members) == [j |-> "object", lit |-> "", members |-> members]
JOmitted == [j |-> "omitted", lit |-> "", members |-> NoEntries]
JError == [j |-> "error", lit |-> "", members |-> NoEntries]

\* json.Marshal of a scalar: strings are coerced to valid UTF-8, a channel is
\* an unsupported type.
MarshalScalar(x) ==
    CASE x.dyn = "string" -> JString(ToValidUTF8(x.text))
      [] x.dyn \in {"int", "float64"} -> JNumber(x.text)
      [] x.dyn = "chan" -> JError
      [] OTHER -> JNull

\* json.Marshal of a value: a map becomes an object and fails if an entry
\* fails, a nil map becomes null.
MarshalValue(x) ==
    IF x.dyn = "map"
    THEN IF \E k \in DOMAIN x.entries : MarshalScalar(x.entries[k]) = JError
         THEN JError
         ELSE JObject([k \in DOMAIN x.entries |-> MarshalScalar(x.entries[k])])
    ELSE MarshalScalar(x)

\* json.Unmarshal into an interface{}: null gives nil, a number a float64, an
\* object a map[string]interface{}.
UnmarshalScalar(jv) ==
    CASE jv.j = "string" -> GoString(jv.lit)
      [] jv.j = "number" -> GoFloat(Float64Of(jv.lit))
      [] OTHER -> GoNil

UnmarshalValue(jv) ==
    IF jv.j = "object"
    THEN GoMap([k \in DOMAIN jv.members |-> UnmarshalScalar(jv.members[k])])
    ELSE UnmarshalScalar(jv)

\* omitempty: a map member is left out when the map has no entries, an
\* interface{} member when it is nil.
OmitEmptyMap(m) == IF DOMAIN m.entries = {} THEN JOmitted ELSE MarshalValue(m)
OmitNil(x) == IF x = GoNil THEN JOmitted ELSE MarshalValue(x)
OmitEmptyString(str) == IF str = "" THEN JOmitted ELSE JString(ToValidUTF8(str))

\* The event structs.
TaskEvent(taskID, boardID, verb, changeSet, entity) ==
    [struct |-> "TaskEvent", TaskID |-> taskID, BoardID |-> boardID,
     Action |-> verb, Changes |-> changeSet, Task |-> entity]
ProjectEvent(projectID, verb, changeSet, entity) ==
    [struct |-> "ProjectEvent", ProjectID |-> projectID, Action |-> verb,
     Changes |-> changeSet, Project |-> entity]
BoardEvent(boardID, projectID, verb, changeSet, entity) ==
    [struct |-> "BoardEvent", BoardID |-> boardID, ProjectID |-> projectID,
     Action |-> verb, Changes |-> changeSet, Board |-> entity]
ErrorEvent(errCode, errText, errDetails) ==
    [struct |-> "ErrorEvent", Code |-> errCode, Message |-> errText,
     Details |-> errDetails]

\* json.Marshal of an event struct, member by member under its json tags
\* (an object's members are a record: their order carries no meaning).
MarshalTaskEvent(e) ==
    JObject([task_id |-> JString(ToValidUTF8(e.TaskID)),
             board_id |-> JString(ToValidUTF8(e.BoardID)),
             action |-> JString(e.Action),
             changes |-> OmitEmptyMap(e.Changes),
             task |-> OmitNil(e.Task)])

MarshalProjectEvent(e) ==
    JObject([action |-> JString(e.Action),
             changes |-> OmitEmptyMap(e.Changes),
             project_id |-> JString(ToValidUTF8(e.ProjectID)),
             project |-> OmitNil(e.Project)])

MarshalBoardEvent(e) ==
    JObject([board_id |-> JString(ToValidUTF8(e.BoardID)),
             action |-> JString(e.Action),
             changes |-> OmitEmptyMap(e.Changes),
             project_id |-> JString(ToValidUTF8(e.ProjectID)),
             board |-> OmitNil(e.Board)])

MarshalErrorEvent(e) ==
    JObject([code |-> JString(ToValidUTF8(e.Code)),
             message |-> JString(ToValidUTF8(e.Message)),
             details |-> OmitEmptyString(e.Details)])

\* json.Marshal(data) in NewMessage: the object, or the error of a member
\* that cannot be encoded.
MarshalEvent(e) ==
    LET obj == CASE e.struct = "TaskEvent" -> MarshalTaskEvent(e)
                 [] e.struct = "ProjectEvent" -> MarshalProjectEvent(e)
                 [] e.struct = "BoardEvent" -> MarshalBoardEvent(e)
                 [] OTHER -> MarshalErrorEvent(e)
    IN IF \E k \in DOMAIN obj.members : obj.members[k] = JError
       THEN JError
       ELSE obj

\* The Message struct; a constructor returns (envelope, error), modelled as
\* [err, env] with NoEnvelope for the nil pointer.
Message(msgType, rawData) ==
    [Type |-> msgType, Timestamp |-> "now", Data |-> rawData, Error |-> ""]
NoEnvelope == [Type |-> "", Timestamp |-> "", Data |-> JOmitted, Error |-> ""]

NewMessage(msgType, event) ==
    LET rawData == MarshalEvent(event)
    IN IF rawData = JError
       THEN [err |-> TRUE, env |-> NoEnvelope]
       ELSE [err |-> FALSE, env |-> Message(msgType, rawData)]

NewErrorMessage(code, message, details) ==
    [err |-> FALSE,
     env |-> Message("error", MarshalEvent(ErrorEvent(code, message, details)))]

NewTaskCreatedMessage(taskID, boardID, task) ==
    NewMessage("task.created",
               TaskEvent(taskID, boardID, "created", GoNilMap, task))

NewTaskUpdatedMessage(taskID, boardID, changes, task) ==
    NewMessage("task.updated",
               TaskEvent(taskID, boardID, "updated", changes, task))

\* A constructor of task.deleted envelopes that writes the wrong verb.
NewTaskDeletedAsUpdated(taskID, boardID) ==
    NewMessage("task.deleted",
               TaskEvent(taskID, boardID, "updated", GoNilMap, GoNil))

NewTaskDeletedMessage(taskID, boardID) ==
    NewMessage("task.deleted",
               TaskEvent(taskID, boardID, "deleted", GoNilMap, GoNil))

NewProjectCreatedMessage(projectID, project) ==
    NewMessage("project.created",
               ProjectEvent(projectID, "created", GoNilMap, project))

NewProjectUpdatedMessage(projectID, changes, project) ==
    NewMessage("project.updated",
               ProjectEvent(projectID, "updated", changes, project))

NewBoardUpdatedMessage(boardID, projectID, changes, board) ==
    NewMessage("board.updated",
               BoardEvent(boardID, projectID, "updated", changes, board))

\* json.Marshal of an envelope (the data member is the raw payload, left out
\* when empty) and json.Unmarshal of that text into a Message.
MarshalMessage(m) ==
    JObject([type |-> JString(m.Type),
             timestamp |-> JString(m.Timestamp),
             data |-> m.Data,
             error |-> OmitEmptyString(m.Error)])

UnmarshalMessage(jv) ==
    [Type |-> jv.members.type.lit,
     Timestamp |-> jv.members.timestamp.lit,
     Data |-> jv.members.data,
     Error |-> IF jv.members.error = JOmitted THEN "" ELSE jv.members.error.lit]

\* A payload decoder that never reads the changes member.
UnmarshalTaskEventNoChanges(jv) ==
    TaskEvent(jv.members.task_id.lit, jv.members.board_id.lit,
              jv.members.action.lit,
              GoNilMap,
              IF jv.members.task = JOmitted THEN GoNil
              ELSE UnmarshalValue(jv.members.task))

\* json.Unmarshal of a payload into a TaskEvent: a member that is absent
\* leaves the field at its zero value.
UnmarshalTaskEvent(jv) ==
    TaskEvent(jv.members.task_id.lit, jv.members.board_id.lit,
              jv.members.action.lit,
              IF jv.members.changes = JOmitted THEN GoNilMap
              ELSE UnmarshalValue(jv.members.changes),
              IF jv.members.task = JOmitted THEN GoNil
              ELSE UnmarshalValue(jv.members.task))

\* No constructor called yet / nothing parsed yet.
NoCall == [ctor |-> "", arg1 |-> "", arg2 |-> "", argChanges |-> GoNilMap,
           argEntity |-> GoNil, failed |-> FALSE, envelope |-> NoEnvelope]
NoParse == [Type |-> "", Event |-> TaskEvent("", "", "", GoNilMap, GoNil)]

Alive == panicked = "none"

\* A Go panic or fatal runtime error: the process ends where it stands.
Panic(reason) == panicked' = reason

\* ---------------------------------------------------------------- Init
Init ==
    /\ hubPc = "init"
    /\ hubMsg = NoMsg
    /\ hubVisit = {}
    /\ clients = {}
    /\ broadcast = <<>>
    /\ shutdown = FALSE
    /\ regWait = {}
    /\ apiReg = {}
    /\ apiUnreg = {}
    /\ nAdded = 0
    /\ nRemoved = 0
    /\ send = [c \in Clients |-> <<>>]
    /\ closed = [c \in Clients |-> FALSE]
    /\ filters = [c \in Clients |-> NoFilter]
    /\ hPc = [c \in Clients |-> "none"]
    /\ rPc = [c \in Clients |-> "off"]
    /\ wPc = [c \in Clients |-> "off"]
    /\ wN = [c \in Clients |-> 0]
    /\ written = [c \in Clients |-> <<>>]
    /\ sPc = [c \in Clients |-> "idle"]
    /\ fPc = "idle"
    /\ fMsg = NoMsg
    /\ fVisit = {}
    /\ nextId = 1
    /\ dropped = {}
    /\ missed = {}
    /\ inputs = 0
    /\ ret = "none"
    /\ resp = [c \in Clients |-> "none"]
    /\ msg = NoCall
    /\ parsed = NoParse
    /\ panicked = "none"
    /\ enq = [c \in Clients |-> <<>>]
    /\ wOpen = [c \in Clients |-> 0]
    /\ restOp = "none"
    /\ restPc = "idle"
    /\ restHub = FALSE
    /\ restCommitted = FALSE
    /\ restCalls = 0
    /\ restStatus = 0

\* ------------------------------------------------------------ Client
\* Client.SetFilter
SetFilter(f, key, value) ==
    [k \in (DOMAIN f) \cup {key} |-> IF k = key THEN value ELSE f[k]]

\* Client.GetFilter: <<value, exists>>
GetFilter(c, key) ==
    IF key \in DOMAIN filters[c] THEN <<filters[c][key], TRUE>> ELSE <<"", FALSE>>

\* A handler that sets both keys whatever the query parameters are.
QueryFilterAlways(projectID, boardID) ==
    SetFilter(SetFilter(NoFilter, "project_id", projectID), "board_id", boardID)

\* The filter ServeHTTP builds from the query parameters.
QueryFilter(projectID, boardID) ==
    LET f1 == IF projectID # "" THEN SetFilter(NoFilter, "project_id", projectID)
              ELSE NoFilter
    IN  IF boardID # "" THEN SetFilter(f1, "board_id", boardID) ELSE f1

\* The lock h.mu: broadcastToAll and BroadcastToFiltered hold it for reading
\* from their first to their last visit; the hub's register, unregister and
\* closeAllClients take it for writing, which waits for the readers.
WriteLockFree == fPc = "idle"


\* A send that never finds the queue full.
SendOutcomeUnbounded(c) == IF closed[c] THEN "panic" ELSE "sent"

\* The outcome of a non-blocking send `select { case c.send <- m: default: }`:
\* a send on a closed channel panics, a send on a channel with room proceeds,
\* otherwise the default case runs.
SendOutcome(c) ==
    IF closed[c] THEN "panic"
    ELSE IF Len(send[c]) < QueueCap THEN "sent"
    ELSE "full"

\* A send that puts the envelope at the head of the queue.
EnqueueFront(c, m) ==
    /\ send' = [send EXCEPT ![c] = <<m>> \o @]
    /\ enq' = [enq EXCEPT ![c] = Append(@, m)]

\* case c.send <- m: the envelope goes to the end of the queue.
Enqueue(c, m) ==
    /\ send' = [send EXCEPT ![c] = Append(@, m)]
    /\ enq' = [enq EXCEPT ![c] = Append(@, m)]

\* ----------------------------------------------------------------- Hub
\* `go hub.Run()`
HubStart ==
    /\ Alive
    /\ hubPc = "init"
    /\ hubPc' = "select"
    /\ UNCHANGED <<hubMsg, hubVisit, clients, broadcast, shutdown, regWait>>
    /\ UNCHANGED <<apiReg, apiUnreg, nAdded, nRemoved>>
    /\ UNCHANGED <<sessVars, filtVars, callVars, msgVars, histVars, panicked>>
    /\ UNCHANGED <<auxVars, restVars>>

\* The register case's effect on the registry: h.clients[client] = true.
RegisterEffect(c) ==
    /\ clients' = clients \cup {c}
    /\ nAdded' = IF c \in clients THEN nAdded ELSE nAdded + 1

\* Hub.Run, case client := <-h.register (the rendezvous releases the handler
\* blocked in RegisterClient).
HubRegister(c) ==
    /\ Alive
    /\ hubPc = "select"
    /\ c \in regWait
    /\ WriteLockFree
    /\ regWait' = regWait \ {c}
    /\ RegisterEffect(c)
    /\ hPc' = [hPc EXCEPT ![c] = "registered"]
    /\ UNCHANGED <<hubPc, hubMsg, hubVisit, broadcast, shutdown, apiReg, apiUnreg>>
    /\ UNCHANGED nRemoved
    /\ UNCHANGED <<send, closed, filters, rPc, wPc, wN, written, sPc>>
    /\ UNCHANGED <<filtVars, callVars, msgVars, histVars, panicked>>
    /\ UNCHANGED <<auxVars, restVars>>

\* An unregister that closes the queue without looking the session up.
UnregisterUnchecked(c) ==
    /\ clients' = clients \ {c}
    /\ nRemoved' = IF c \in clients THEN nRemoved + 1 ELSE nRemoved
    /\ IF closed[c]
       THEN Panic("close of closed queue") /\ UNCHANGED closed
       ELSE closed' = [closed EXCEPT ![c] = TRUE] /\ UNCHANGED panicked

\* The unregister case's effect on the registry and the queue: remove the
\* session if present and close its queue (closing a closed channel panics,
\* after the delete).
UnregisterEffect(c) ==
    IF c \in clients
    THEN /\ clients' = clients \ {c}
         /\ nRemoved' = nRemoved + 1
         /\ IF closed[c]
            THEN Panic("close of closed queue") /\ UNCHANGED closed
            ELSE closed' = [closed EXCEPT ![c] = TRUE] /\ UNCHANGED panicked
    ELSE UNCHANGED <<clients, nRemoved, closed, panicked>>

\* Hub.Run, case client := <-h.unregister, the request coming from the
\* session's reader (ReadPump's deferred send), which then closes the
\* transport and returns.
HubUnregisterReader(c) ==
    /\ Alive
    /\ hubPc = "select"
    /\ rPc[c] = "unreg"
    /\ WriteLockFree
    /\ rPc' = [rPc EXCEPT ![c] = "done"]
    /\ UnregisterEffect(c)
    /\ UNCHANGED <<hubPc, hubMsg, hubVisit, broadcast, shutdown, regWait, apiReg, apiUnreg>>
    /\ UNCHANGED nAdded
    /\ UNCHANGED <<send, filters, hPc, wPc, wN, written, sPc>>
    /\ UNCHANGED <<filtVars, callVars, msgVars, histVars>>
    /\ UNCHANGED <<auxVars, restVars>>

\* Hub.Run, case client := <-h.unregister, the request coming from a
\* Client.Send caller that overflowed the queue.
HubUnregisterSender(c) ==
    /\ Alive
    /\ hubPc = "select"
    /\ sPc[c] = "unreg"
    /\ WriteLockFree
    /\ sPc' = [sPc EXCEPT ![c] = "idle"]
    /\ UnregisterEffect(c)
    /\ UNCHANGED <<hubPc, hubMsg, hubVisit, broadcast, shutdown, regWait, apiReg, apiUnreg>>
    /\ UNCHANGED nAdded
    /\ UNCHANGED <<send, filters, hPc, rPc, wPc, wN, written>>
    /\ UNCHANGED <<filtVars, callVars, msgVars, histVars>>
    /\ UNCHANGED <<auxVars, restVars>>

\* A relay that hands out its newest envelope first.
RelayTakeNewest ==
    <<broadcast[Len(broadcast)], SubSeq(broadcast, 1, Len(broadcast) - 1)>>

\* A relay that hands out its oldest envelope and keeps it.
RelayPeek == <<Head(broadcast), broadcast>>

\* message := <-h.broadcast: <<the envelope received, the relay afterwards>>.
RelayTake == <<Head(broadcast), Tail(broadcast)>>

\* Hub.Run, case message := <-h.broadcast: broadcastToAll takes the read
\* lock and ranges over the registry as it is now.
HubRecvBroadcast ==
    /\ Alive
    /\ hubPc = "select"
    /\ broadcast # <<>>
    /\ broadcast' = RelayTake[2]
    /\ IF clients = {}
       THEN UNCHANGED <<hubPc, hubMsg, hubVisit>>
       ELSE /\ hubPc' = "bcast"
            /\ hubMsg' = RelayTake[1]
            /\ hubVisit' = clients
    /\ UNCHANGED <<clients, shutdown, regWait, apiReg, apiUnreg, nAdded, nRemoved>>
    /\ UNCHANGED <<sessVars, filtVars, callVars, msgVars, histVars, panicked>>
    /\ UNCHANGED <<auxVars, restVars>>

\* A broadcastToAll that waits for room in a full queue instead of evicting.
EvictWaits(c) ==
    /\ Len(send[c]) < QueueCap
    /\ UNCHANGED <<closed, clients, missed>>

\* What broadcastToAll does with a session whose queue is full: close the
\* queue and delete the session from the registry.
Evict(c) ==
    /\ closed' = [closed EXCEPT ![c] = TRUE]
    /\ clients' = clients \ {c}
    /\ missed' = missed \cup {<<c, hubMsg.id>>}

\* The sessions broadcastToAll has still to visit after visiting c.
HubRest(c) == hubVisit \ {c}

\* One iteration of broadcastToAll's loop, for session c.  The delete runs
\* under the read lock: when BroadcastToFiltered is ranging over the same map
\* the runtime may also end the process ("concurrent map iteration and map
\* write").
HubDeliver(c) ==
    /\ Alive
    /\ hubPc = "bcast"
    /\ c \in hubVisit
    /\ hubVisit' = HubRest(c)
    /\ IF HubRest(c) = {}
       THEN hubPc' = "select" /\ hubMsg' = NoMsg
       ELSE UNCHANGED <<hubPc, hubMsg>>
    /\ \/ /\ SendOutcome(c) = "panic"
          /\ Panic("send on closed queue")
          /\ UNCHANGED <<send, enq, closed, clients, missed>>
       \/ /\ SendOutcome(c) = "sent"
          /\ Enqueue(c, hubMsg)
          /\ UNCHANGED <<closed, clients, missed, panicked>>
       \/ /\ SendOutcome(c) = "full"
          /\ Evict(c)
          /\ UNCHANGED <<send, enq, panicked>>
       \/ /\ SendOutcome(c) = "full"
          /\ fPc = "iter"
          /\ Evict(c)
          /\ Panic("concurrent map iteration and map write")
          /\ UNCHANGED <<send, enq>>
    /\ UNCHANGED <<broadcast, shutdown, regWait, apiReg, apiUnreg, nAdded, nRemoved>>
    /\ UNCHANGED <<filters, hPc, rPc, wPc, wN, written, sPc>>
    /\ UNCHANGED <<filtVars, callVars, msgVars, nextId, dropped, inputs>>
    /\ UNCHANGED <<wOpen, restVars>>

\* closeAllClients: close and delete every registered session.  Closing a
\* queue that is already closed panics; the map's iteration order decides
\* which sessions P were closed and deleted before that.
CloseAllClients ==
    IF \E c \in clients : closed[c]
    THEN /\ \E P \in SUBSET {c \in clients : ~closed[c]} :
              /\ closed' = [c \in Clients |-> closed[c] \/ c \in P]
              /\ clients' = clients \ P
         /\ Panic("close of closed queue")
         /\ UNCHANGED hubPc
    ELSE /\ closed' = [c \in Clients |-> closed[c] \/ c \in clients]
         /\ clients' = {}
         /\ hubPc' = "done"
         /\ UNCHANGED panicked

\* Hub.Run, case <-h.shutdown: closeAllClients, return.
HubShutdown ==
    /\ Alive
    /\ hubPc = "select"
    /\ shutdown
    /\ WriteLockFree
    /\ CloseAllClients
    /\ UNCHANGED <<hubMsg, hubVisit, broadcast, shutdown, regWait>>
    /\ UNCHANGED <<apiReg, apiUnreg, nAdded, nRemoved>>
    /\ UNCHANGED <<send, filters, hPc, rPc, wPc, wN, written, sPc>>
    /\ UNCHANGED <<filtVars, callVars, msgVars, histVars>>
    /\ UNCHANGED <<auxVars, restVars>>

\* Hub.Shutdown: close(h.shutdown); closing it a second time panics.
Shutdown ==
    /\ Alive
    /\ inputs < MaxInputs
    /\ inputs' = inputs + 1
    /\ IF shutdown
       THEN Panic("close of closed shutdown") /\ UNCHANGED shutdown
       ELSE shutdown' = TRUE /\ UNCHANGED panicked
    /\ UNCHANGED <<hubPc, hubMsg, hubVisit, clients, broadcast, regWait>>
    /\ UNCHANGED <<apiReg, apiUnreg, nAdded, nRemoved>>
    /\ UNCHANGED <<sessVars, filtVars, callVars, msgVars, nextId, dropped, missed>>
    /\ UNCHANGED <<auxVars, restVars>>

\* A relay that grows past its capacity instead of dropping.
RelayOfferUnbounded(m) == Append(broadcast, m)

\* The relay after a non-blocking send of m: appended when there is room,
\* left alone (the envelope is dropped) when full.
RelayOffer(m) ==
    IF Len(broadcast) < RelayCap THEN Append(broadcast, m) ELSE broadcast

\* A BroadcastMessage that reports an error when it drops the envelope.
BroadcastResultDropIsError(ok) ==
    IF ok /\ Len(broadcast) < RelayCap THEN "nil" ELSE "error"

\* A BroadcastMessage that reports an error when nobody is registered.
BroadcastResultNeedsSession(ok) ==
    IF ok /\ clients # {} THEN "nil" ELSE "error"

\* What BroadcastMessage returns: err when json.Marshal failed, nil after the
\* select, whether the envelope went onto the relay or was dropped.
BroadcastResult(ok) == IF ok THEN "nil" ELSE "error"

\* BroadcastMessage's effect: nothing but the error when json.Marshal failed,
\* else select { case h.broadcast <- data: default: dropped }.
RelaySend(ok) ==
    /\ ret' = BroadcastResult(ok)
    /\ IF ok
       THEN /\ nextId' = nextId + 1
            /\ broadcast' = RelayOffer(RelayMsg(nextId))
            /\ dropped' = IF Len(broadcast) < RelayCap THEN dropped
                          ELSE dropped \cup {nextId}
       ELSE UNCHANGED <<nextId, broadcast, dropped>>

\* Hub.BroadcastMessage(msg): marshal (ok = it succeeded), then a non-blocking
\* send onto the relay.  It touches neither the lock nor the registry, and
\* does not depend on the loop running.
BroadcastMessage(ok) ==
    /\ Alive
    /\ inputs < MaxInputs
    /\ inputs' = inputs + 1
    /\ RelaySend(ok)
    /\ UNCHANGED <<hubPc, hubMsg, hubVisit, clients, shutdown, regWait>>
    /\ UNCHANGED <<apiReg, apiUnreg, nAdded, nRemoved>>
    /\ UNCHANGED <<sessVars, filtVars, resp, msgVars, missed, panicked>>
    /\ UNCHANGED <<auxVars, restVars>>

\* A match that compares the value without asking whether the key exists.
MatchesValueOnly(c, key, value) == GetFilter(c, key)[1] = value

\* Whether BroadcastToFiltered(key, value) selects session c.
Matches(c, key, value) ==
    GetFilter(c, key)[2] /\ GetFilter(c, key)[1] = value

\* Hub.BroadcastToFiltered(msg, key, value): marshal, take the read lock and
\* range over the registry.
FilteredStart(ok, key, value) ==
    /\ Alive
    /\ fPc = "idle"
    /\ inputs < MaxInputs
    /\ inputs' = inputs + 1
    /\ nextId' = IF ok THEN nextId + 1 ELSE nextId
    /\ IF ok /\ clients # {}
       THEN /\ fPc' = "iter"
            /\ fMsg' = FilteredMsg(nextId, key, value)
            /\ fVisit' = clients
       ELSE UNCHANGED <<fPc, fMsg, fVisit>>
    /\ UNCHANGED <<hubVars, sessVars, dropped, missed, panicked>>
    /\ UNCHANGED <<callVars, msgVars>>
    /\ UNCHANGED <<auxVars, restVars>>

FilteredRest(c) == fVisit \ {c}

\* One iteration of BroadcastToFiltered's loop, for session c.  A session the
\* hub loop deleted from the map during the iteration (a data race: the
\* delete runs under the read lock) may still be produced or be skipped.
FilteredVisit(c) ==
    /\ Alive
    /\ fPc = "iter"
    /\ c \in fVisit
    /\ fVisit' = FilteredRest(c)
    /\ IF FilteredRest(c) = {}
       THEN fPc' = "idle" /\ fMsg' = NoMsg
       ELSE UNCHANGED <<fPc, fMsg>>
    /\ \/ /\ c \notin clients
          /\ UNCHANGED <<send, enq, panicked>>
       \/ /\ ~Matches(c, fMsg.key, fMsg.val)
          /\ UNCHANGED <<send, enq, panicked>>
       \/ /\ Matches(c, fMsg.key, fMsg.val)
          /\ SendOutcome(c) = "panic"
          /\ Panic("send on closed queue")
          /\ UNCHANGED <<send, enq>>
       \/ /\ Matches(c, fMsg.key, fMsg.val)
          /\ SendOutcome(c) = "sent"
          /\ Enqueue(c, fMsg)
          /\ UNCHANGED panicked
       \/ /\ Matches(c, fMsg.key, fMsg.val)
          /\ SendOutcome(c) = "full"
          /\ UNCHANGED <<send, enq, panicked>>
    /\ UNCHANGED <<hubVars, closed, filters, hPc, rPc, wPc, wN, written, sPc>>
    /\ UNCHANGED histVars
    /\ UNCHANGED <<callVars, msgVars>>
    /\ UNCHANGED <<wOpen, restVars>>


\* ------------------------------------------------------------- Handler
\* A handler that upgrades requests of every method.
MethodAllowedAny(method) == TRUE

\* r.Method != http.MethodGet is answered 405 before anything else.
MethodAllowed(method) == method = "GET"

\* Handler.ServeHTTP: a request of another method is answered 405 and a
\* failed upgrade is logged, both returning before a session exists; a GET
\* request that upgrades makes the session (NewClient), sets the filters from
\* the query parameters and calls RegisterClient, which blocks until the hub
\* loop receives the session.
ServeHTTP(c, method, upgraded, projectID, boardID) ==
    /\ Alive
    /\ hPc[c] = "none"
    /\ inputs < MaxInputs
    /\ inputs' = inputs + 1
    /\ IF ~MethodAllowed(method)
       THEN /\ resp' = [resp EXCEPT ![c] = "405"]
            /\ UNCHANGED <<filters, hPc, regWait>>
       ELSE IF ~upgraded
       THEN /\ resp' = [resp EXCEPT ![c] = "upgrade failed"]
            /\ UNCHANGED <<filters, hPc, regWait>>
       ELSE /\ resp' = [resp EXCEPT ![c] = "switched"]
            /\ filters' = [filters EXCEPT ![c] = QueryFilter(projectID, boardID)]
            /\ hPc' = [hPc EXCEPT ![c] = "registering"]
            /\ regWait' = regWait \cup {c}
    /\ UNCHANGED <<hubPc, hubMsg, hubVisit, clients, broadcast, shutdown>>
    /\ UNCHANGED <<apiReg, apiUnreg, nAdded, nRemoved>>
    /\ UNCHANGED <<send, closed, rPc, wPc, wN, written, sPc>>
    /\ UNCHANGED <<filtVars, ret, msgVars, nextId, dropped, missed, panicked>>
    /\ UNCHANGED <<auxVars, restVars>>

\* ServeHTTP after RegisterClient returned: `go client.WritePump()` and
\* `client.ReadPump()`.
StartPumps(c) ==
    /\ Alive
    /\ hPc[c] = "registered"
    /\ hPc' = [hPc EXCEPT ![c] = "serving"]
    /\ rPc' = [rPc EXCEPT ![c] = "read"]
    /\ wPc' = [wPc EXCEPT ![c] = "idle"]
    /\ UNCHANGED <<hubVars, send, closed, filters, wN, written, sPc>>
    /\ UNCHANGED <<filtVars, callVars, msgVars, histVars, panicked>>
    /\ UNCHANGED <<auxVars, restVars>>

\* -------------------------------------------------------------- Reader
\* sendPong / sendError: a non-blocking send of the reply onto the session's
\* own queue; the reply is dropped when the queue is full.
Reply(c, m) ==
    \/ /\ SendOutcome(c) = "panic"
       /\ Panic("send on closed queue")
       /\ UNCHANGED <<send, enq>>
    \/ /\ SendOutcome(c) = "sent"
       /\ Enqueue(c, m)
       /\ UNCHANGED panicked
    \/ /\ SendOutcome(c) = "full"
       /\ UNCHANGED <<send, enq, panicked>>

\* A dispatch that answers a frame of an unknown kind with an error envelope.
FrameReplyStrict(kind) ==
    CASE kind = "ping" -> PongMsg
      [] kind = "pong" -> NoMsg
      [] OTHER -> ErrorMsg

\* handleIncomingMessage's reply to a frame: a frame that does not unmarshal
\* ("invalid") gets sendError, a ping gets sendPong, a pong resets the read
\* deadline and any other kind is logged; NoMsg stands for no reply.
FrameReply(kind) ==
    CASE kind = "invalid" -> ErrorMsg
      [] kind = "ping" -> PongMsg
      [] OTHER -> NoMsg

\* ReadPump reads a frame and handleIncomingMessage dispatches on it.
ReadFrame(c, kind) ==
    /\ Alive
    /\ rPc[c] = "read"
    /\ inputs < MaxInputs
    /\ inputs' = inputs + 1
    /\ IF FrameReply(kind) = NoMsg
       THEN UNCHANGED <<send, enq, panicked>>
       ELSE Reply(c, FrameReply(kind))
    /\ UNCHANGED <<hubVars, closed, filters, hPc, rPc, wPc, wN, written, sPc>>
    /\ UNCHANGED <<filtVars, callVars, msgVars, nextId, dropped, missed>>
    /\ UNCHANGED <<wOpen, restVars>>

\* ReadMessage fails (the peer went away, the read deadline passed, or the
\* transport was closed): ReadPump breaks out of its loop and its deferred
\* function blocks in c.hub.unregister <- c.
ReadError(c) ==
    /\ Alive
    /\ rPc[c] = "read"
    /\ inputs < MaxInputs
    /\ inputs' = inputs + 1
    /\ rPc' = [rPc EXCEPT ![c] = "unreg"]
    /\ UNCHANGED <<hubVars, send, closed, filters, hPc, wPc, wN, written, sPc>>
    /\ UNCHANGED <<filtVars, callVars, msgVars, nextId, dropped, missed, panicked>>
    /\ UNCHANGED <<auxVars, restVars>>

\* ReadMessage fails because the writer returned and its deferred function
\* closed the transport (c.conn.Close()): ReadPump breaks out of its loop as
\* after any other read error.
ReadClosed(c) ==
    /\ Alive
    /\ rPc[c] = "read"
    /\ wPc[c] = "done"
    /\ rPc' = [rPc EXCEPT ![c] = "unreg"]
    /\ UNCHANGED <<hubVars, send, closed, filters, hPc, wPc, wN, written, sPc>>
    /\ UNCHANGED <<filtVars, callVars, msgVars, histVars, panicked>>
    /\ UNCHANGED <<auxVars, restVars>>

\* -------------------------------------------------------------- Writer
\* WritePump, case message, ok := <-c.send with an envelope queued (a closed
\* channel still yields what it holds): NextWriter, which may fail (the pump
\* returns), then w.Write(message).
WriterRecv(c, ok) ==
    /\ Alive
    /\ wPc[c] = "idle"
    /\ send[c] # <<>>
    /\ ok \/ inputs < MaxInputs
    /\ inputs' = IF ok THEN inputs ELSE inputs + 1
    /\ send' = [send EXCEPT ![c] = Tail(@)]
    /\ IF ok
       THEN /\ written' = [written EXCEPT ![c] = Append(@, Head(send[c]))]
            /\ wPc' = [wPc EXCEPT ![c] = "wrote"]
            /\ wOpen' = [wOpen EXCEPT ![c] = Len(send[c]) - 1]
       ELSE /\ wPc' = [wPc EXCEPT ![c] = "done"]
            /\ UNCHANGED <<written, wOpen>>
    /\ UNCHANGED <<hubVars, closed, filters, hPc, rPc, wN, sPc>>
    /\ UNCHANGED <<filtVars, callVars, msgVars, nextId, dropped, missed, panicked>>
    /\ UNCHANGED <<enq, restVars>>

\* WritePump: n := len(c.send)
WriterLen(c) ==
    /\ Alive
    /\ wPc[c] = "wrote"
    /\ wN' = [wN EXCEPT ![c] = Len(send[c])]
    /\ wPc' = [wPc EXCEPT ![c] = "coalesce"]
    /\ UNCHANGED <<hubVars, send, closed, filters, hPc, rPc, written, sPc>>
    /\ UNCHANGED <<filtVars, callVars, msgVars, histVars, panicked>>
    /\ UNCHANGED <<auxVars, restVars>>

\* WritePump: one turn of the coalescing loop, w.Write(<-c.send)
WriterCoalesce(c) ==
    /\ Alive
    /\ wPc[c] = "coalesce"
    /\ wN[c] > 0
    /\ send[c] # <<>>
    /\ send' = [send EXCEPT ![c] = Tail(@)]
    /\ written' = [written EXCEPT ![c] = Append(@, Head(send[c]))]
    /\ wN' = [wN EXCEPT ![c] = @ - 1]
    /\ UNCHANGED <<hubVars, closed, filters, hPc, rPc, wPc, sPc>>
    /\ UNCHANGED <<filtVars, callVars, msgVars, histVars, panicked>>
    /\ UNCHANGED <<auxVars, restVars>>

\* WritePump: w.Close() flushes the frame; on an error the pump returns.
WriterFlush(c, ok) ==
    /\ Alive
    /\ wPc[c] = "coalesce"
    /\ wN[c] = 0
    /\ ok \/ inputs < MaxInputs
    /\ inputs' = IF ok THEN inputs ELSE inputs + 1
    /\ wPc' = [wPc EXCEPT ![c] = IF ok THEN "idle" ELSE "done"]
    /\ UNCHANGED <<hubVars, send, closed, filters, hPc, rPc, wN, written, sPc>>
    /\ UNCHANGED <<filtVars, callVars, msgVars, nextId, dropped, missed, panicked>>
    /\ wOpen' = [wOpen EXCEPT ![c] = 0]
    /\ UNCHANGED <<enq, restVars>>

\* WritePump, case message, ok := <-c.send with the queue closed and empty:
\* write the close frame and return.
WriterClosed(c) ==
    /\ Alive
    /\ wPc[c] = "idle"
    /\ send[c] = <<>>
    /\ closed[c]
    /\ wPc' = [wPc EXCEPT ![c] = "done"]
    /\ UNCHANGED <<hubVars, send, closed, filters, hPc, rPc, wN, written, sPc>>
    /\ UNCHANGED <<filtVars, callVars, msgVars, histVars, panicked>>
    /\ UNCHANGED <<auxVars, restVars>>

\* WritePump, case <-ticker.C with the ping failing to be written: return.
WriterPingFail(c) ==
    /\ Alive
    /\ wPc[c] = "idle"
    /\ inputs < MaxInputs
    /\ inputs' = inputs + 1
    /\ wPc' = [wPc EXCEPT ![c] = "done"]
    /\ UNCHANGED <<hubVars, send, closed, filters, hPc, rPc, wN, written, sPc>>
    /\ UNCHANGED <<filtVars, callVars, msgVars, nextId, dropped, missed, panicked>>
    /\ UNCHANGED <<auxVars, restVars>>

\* --------------------------------------------------------- Client.Send
\* Client.Send(message), called by any task holding the session: a
\* non-blocking send; when the queue is full it closes the queue and blocks
\* in c.hub.unregister <- c.
ClientSend(c) ==
    /\ Alive
    /\ hPc[c] # "none"
    /\ sPc[c] = "idle"
    /\ inputs < MaxInputs
    /\ inputs' = inputs + 1
    /\ \/ /\ SendOutcome(c) = "panic"
          /\ Panic("send on closed queue")
          /\ UNCHANGED <<send, enq, closed, sPc>>
       \/ /\ SendOutcome(c) = "sent"
          /\ Enqueue(c, SendMsg)
          /\ UNCHANGED <<closed, sPc, panicked>>
       \/ /\ SendOutcome(c) = "full"
          /\ closed' = [closed EXCEPT ![c] = TRUE]
          /\ sPc' = [sPc EXCEPT ![c] = "unreg"]
          /\ UNCHANGED <<send, enq, panicked>>
    /\ UNCHANGED <<hubVars, filters, hPc, rPc, wPc, wN, written>>
    /\ UNCHANGED <<filtVars, callVars, msgVars, nextId, dropped, missed>>
    /\ UNCHANGED <<wOpen, restVars>>

\* ------------------------------------------- RegisterClient / UnregisterClient
\* Hub.RegisterClient(client), called directly for a session made by
\* NewClient: blocks in h.register <- client.
RegisterClient(c) ==
    /\ Alive
    /\ c \notin apiReg
    /\ inputs < MaxInputs
    /\ inputs' = inputs + 1
    /\ apiReg' = apiReg \cup {c}
    /\ UNCHANGED <<hubPc, hubMsg, hubVisit, clients, broadcast, shutdown, regWait>>
    /\ UNCHANGED <<apiUnreg, nAdded, nRemoved>>
    /\ UNCHANGED <<sessVars, filtVars, callVars, msgVars, nextId, dropped, missed, panicked>>
    /\ UNCHANGED <<auxVars, restVars>>

\* Hub.Run, case client := <-h.register, the request coming from a
\* RegisterClient caller.
HubRegisterApi(c) ==
    /\ Alive
    /\ hubPc = "select"
    /\ c \in apiReg
    /\ WriteLockFree
    /\ apiReg' = apiReg \ {c}
    /\ RegisterEffect(c)
    /\ UNCHANGED <<hubPc, hubMsg, hubVisit, broadcast, shutdown, regWait, apiUnreg>>
    /\ UNCHANGED nRemoved
    /\ UNCHANGED <<sessVars, filtVars, callVars, msgVars, histVars, panicked>>
    /\ UNCHANGED <<auxVars, restVars>>

\* Hub.UnregisterClient(client): blocks in h.unregister <- client.
UnregisterClient(c) ==
    /\ Alive
    /\ c \notin apiUnreg
    /\ inputs < MaxInputs
    /\ inputs' = inputs + 1
    /\ apiUnreg' = apiUnreg \cup {c}
    /\ UNCHANGED <<hubPc, hubMsg, hubVisit, clients, broadcast, shutdown, regWait>>
    /\ UNCHANGED <<apiReg, nAdded, nRemoved>>
    /\ UNCHANGED <<sessVars, filtVars, callVars, msgVars, nextId, dropped, missed, panicked>>
    /\ UNCHANGED <<auxVars, restVars>>

\* Hub.Run, case client := <-h.unregister, the request coming from an
\* UnregisterClient caller.
HubUnregisterApi(c) ==
    /\ Alive
    /\ hubPc = "select"
    /\ c \in apiUnreg
    /\ WriteLockFree
    /\ apiUnreg' = apiUnreg \ {c}
    /\ UnregisterEffect(c)
    /\ UNCHANGED <<hubPc, hubMsg, hubVisit, broadcast, shutdown, regWait, apiReg>>
    /\ UNCHANGED nAdded
    /\ UNCHANGED <<send, filters, hPc, rPc, wPc, wN, written, sPc>>
    /\ UNCHANGED <<filtVars, callVars, msgVars, histVars>>
    /\ UNCHANGED <<auxVars, restVars>>

\* ------------------------------------------------ typed Broadcast* helpers
\* A helper whose constructor failed returns that error; nothing else happens.
HelperError ==
    /\ Alive
    /\ inputs < MaxInputs
    /\ inputs' = inputs + 1
    /\ ret' = "error"
    /\ UNCHANGED <<hubVars, sessVars, filtVars, resp, msgVars>>
    /\ UNCHANGED <<nextId, dropped, missed, panicked>>
    /\ UNCHANGED <<auxVars, restVars>>

\* msg, err := New...Message(...); if err != nil { return err };
\* return h.BroadcastMessage(msg).  An envelope a constructor made marshals.
TypedBroadcast(r) == IF r.err THEN HelperError ELSE BroadcastMessage(TRUE)

BroadcastTaskCreated(taskID, boardID, task) ==
    TypedBroadcast(NewTaskCreatedMessage(taskID, boardID, task))

BroadcastTaskUpdated(taskID, boardID, changes, task) ==
    TypedBroadcast(NewTaskUpdatedMessage(taskID, boardID, changes, task))

BroadcastTaskDeleted(taskID, boardID) ==
    TypedBroadcast(NewTaskDeletedMessage(taskID, boardID))

BroadcastProjectCreated(projectID, project) ==
    TypedBroadcast(NewProjectCreatedMessage(projectID, project))

BroadcastProjectUpdated(projectID, changes, project) ==
    TypedBroadcast(NewProjectUpdatedMessage(projectID, changes, project))

BroadcastBoardUpdated(boardID, projectID, changes, board) ==
    TypedBroadcast(NewBoardUpdatedMessage(boardID, projectID, changes, board))

\* ------------------------------------------- constructors called directly
\* A constructor call: msg records the constructor, its arguments and what
\* it returned.
Built(ctor, a, b, changes, entity, r) ==
    /\ msg' = [ctor |-> ctor, arg1 |-> a, arg2 |-> b, argChanges |-> changes,
               argEntity |-> entity, failed |-> r.err, envelope |-> r.env]
    /\ parsed' = NoParse
    /\ UNCHANGED <<hubVars, sessVars, filtVars, histVars, callVars, panicked>>
    /\ UNCHANGED <<auxVars, restVars>>

CallNewErrorMessage(code, message, details) ==
    Built("NewErrorMessage", code, message, GoNilMap, GoString(details),
          NewErrorMessage(code, message, details))

CallNewTaskCreatedMessage(taskID, boardID, task) ==
    Built("NewTaskCreatedMessage", taskID, boardID, GoNilMap, task,
          NewTaskCreatedMessage(taskID, boardID, task))

CallNewTaskUpdatedMessage(taskID, boardID, changes, task) ==
    Built("NewTaskUpdatedMessage", taskID, boardID, changes, task,
          NewTaskUpdatedMessage(taskID, boardID, changes, task))

CallNewTaskDeletedMessage(taskID, boardID) ==
    Built("NewTaskDeletedMessage", taskID, boardID, GoNilMap, GoNil,
          NewTaskDeletedMessage(taskID, boardID))

CallNewProjectCreatedMessage(projectID, project) ==
    Built("NewProjectCreatedMessage", projectID, "", GoNilMap, project,
          NewProjectCreatedMessage(projectID, project))

CallNewProjectUpdatedMessage(projectID, changes, project) ==
    Built("NewProjectUpdatedMessage", projectID, "", changes, project,
          NewProjectUpdatedMessage(projectID, changes, project))

CallNewBoardUpdatedMessage(boardID, projectID, changes, board) ==
    Built("NewBoardUpdatedMessage", boardID, projectID, changes, board,
          NewBoardUpdatedMessage(boardID, projectID, changes, board))

\* A consumer serializes a task envelope as BroadcastMessage does and parses
\* the text back: json.Unmarshal into a Message, then of its data into a
\* TaskEvent.
ParseBack ==
    /\ msg.ctor # ""
    /\ ~msg.failed
    /\ msg.envelope.Type \in {"task.created", "task.updated", "task.deleted"}
    /\ parsed = NoParse
    /\ LET m == UnmarshalMessage(MarshalMessage(msg.envelope))
       IN parsed' = [Type |-> m.Type, Event |-> UnmarshalTaskEvent(m.Data)]
    /\ UNCHANGED msg
    /\ UNCHANGED <<hubVars, sessVars, filtVars, histVars, callVars, panicked>>
    /\ UNCHANGED <<auxVars, restVars>>

\* ------------------------------------------------------ REST handlers
\* The APIHandler's mutation handlers.
RestOps == {"createProject", "updateProject", "deleteProject", "createBoard",
            "updateBoard", "deleteBoard", "createTask", "updateTask",
            "deleteTask"}

\* The handlers that hold a Broadcast* call.
RestBroadcasts(op) ==
    op \in {"createProject", "updateProject", "updateBoard", "createTask",
            "updateTask", "deleteTask"}

\* What a handler does before its repository write: decode the request body,
\* or, in deleteTask, read the task; deleteProject and deleteBoard do neither.
RestFirst(op) == IF op \in {"deleteProject", "deleteBoard"} THEN "store" ELSE "decode"

\* The status a handler answers with when that first step fails.
RestRejected(op) == IF op = "deleteTask" THEN 404 ELSE 400

\* The status a handler answers with at its end.
RestSucceeded(op) ==
    IF op \in {"createProject", "createBoard", "createTask"} THEN 201
    ELSE IF op \in {"deleteProject", "deleteBoard", "deleteTask"} THEN 204
    ELSE 200

\* A handler that goes on to its Broadcast* call whatever the repository said.
RestAfterStoreAlways(op, ok, hub) ==
    IF RestBroadcasts(op) /\ hub THEN "cast" ELSE "done"

\* Where a handler goes after its repository write: it returns on an error,
\* and reaches its Broadcast* call only inside `if h.wsHub != nil`.
RestAfterStore(op, ok, hub) ==
    IF ok /\ RestBroadcasts(op) /\ hub THEN "cast" ELSE "done"

\* A request reaches handler op of an APIHandler built with or without a hub.
RestBegin(op, hub) ==
    /\ Alive
    /\ restPc \in {"idle", "done"}
    /\ inputs < MaxInputs
    /\ inputs' = inputs + 1
    /\ restOp' = op
    /\ restHub' = hub
    /\ restPc' = RestFirst(op)
    /\ restCommitted' = FALSE
    /\ restCalls' = 0
    /\ restStatus' = 0
    /\ UNCHANGED <<hubVars, sessVars, filtVars, callVars, msgVars, auxVars>>
    /\ UNCHANGED <<nextId, dropped, missed, panicked>>

\* json.NewDecoder(r.Body).Decode (h.tasks.GetByID in deleteTask): on an
\* error the handler answers and returns.
RestDecode(ok) ==
    /\ Alive
    /\ restPc = "decode"
    /\ restPc' = IF ok THEN "store" ELSE "done"
    /\ restStatus' = IF ok THEN 0 ELSE RestRejected(restOp)
    /\ UNCHANGED <<restOp, restHub, restCommitted, restCalls>>
    /\ UNCHANGED <<hubVars, sessVars, filtVars, callVars, msgVars, auxVars>>
    /\ UNCHANGED <<histVars, panicked>>

\* The repository's Create / Update / Delete: on an error the handler
\* answers 500 and returns; with no Broadcast* call to make it answers.
RestStore(ok) ==
    /\ Alive
    /\ restPc = "store"
    /\ restCommitted' = ok
    /\ restPc' = RestAfterStore(restOp, ok, restHub)
    /\ restStatus' = IF ~ok THEN 500
                     ELSE IF RestAfterStore(restOp, ok, restHub) = "done"
                          THEN RestSucceeded(restOp)
                     ELSE 0
    /\ UNCHANGED <<restOp, restHub, restCalls>>
    /\ UNCHANGED <<hubVars, sessVars, filtVars, callVars, msgVars, auxVars>>
    /\ UNCHANGED <<histVars, panicked>>

\* h.wsHub.Broadcast*(...): the constructor and BroadcastMessage (ok = the
\* entity marshalled); the handler ignores what the call returns and answers.
RestBroadcast(ok) ==
    /\ Alive
    /\ restPc = "cast"
    /\ RelaySend(ok)
    /\ restCalls' = restCalls + 1
    /\ restPc' = "done"
    /\ restStatus' = RestSucceeded(restOp)
    /\ UNCHANGED <<restOp, restHub, restCommitted>>
    /\ UNCHANGED <<hubPc, hubMsg, hubVisit, clients, shutdown, regWait>>
    /\ UNCHANGED <<apiReg, apiUnreg, nAdded, nRemoved>>
    /\ UNCHANGED <<sessVars, filtVars, resp, msgVars, auxVars>>
    /\ UNCHANGED <<missed, inputs, panicked>>

\* ---------------------------------------------------------------- Spec
Next ==
    \/ HubStart
    \/ \E c \in Clients : HubRegister(c)
    \/ \E c \in Clients : HubUnregisterReader(c)
    \/ \E c \in Clients : HubUnregisterSender(c)
    \/ HubRecvBroadcast
    \/ \E c \in Clients : HubDeliver(c)
    \/ HubShutdown
    \/ Shutdown
    \/ \E ok \in BOOLEAN : BroadcastMessage(ok)
    \/ \E ok \in BOOLEAN, k \in Keys, v \in FilterValues : FilteredStart(ok, k, v)
    \/ \E c \in Clients : FilteredVisit(c)
    \/ \E c \in Clients, method \in Methods, upgraded \in BOOLEAN :
            ServeHTTP(c, method, upgraded, Query[c][1], Query[c][2])
    \/ \E c \in Clients : StartPumps(c)
    \/ \E c \in Clients, kind \in FrameKinds : ReadFrame(c, kind)
    \/ \E c \in Clients : ReadError(c)
    \/ \E c \in Clients : ReadClosed(c)
    \/ \E c \in Clients, ok \in BOOLEAN : WriterRecv(c, ok)
    \/ \E c \in Clients : WriterLen(c)
    \/ \E c \in Clients : WriterCoalesce(c)
    \/ \E c \in Clients, ok \in BOOLEAN : WriterFlush(c, ok)
    \/ \E c \in Clients : WriterClosed(c)
    \/ \E c \in Clients : WriterPingFail(c)
    \/ \E c \in Clients : ClientSend(c)

Spec == Init /\ [][Next]_vars

\* Scheduling: every goroutine that can take a step of its own eventually
\* takes one.  The hub loop's select serves a case that stays ready, a pump
\* that is not waiting for the peer goes on, and a caller inside
\* BroadcastToFiltered finishes its loop.  Nothing obliges the environment:
\* requests, frames, calls and transport failures may or may not come.
Fairness ==
    /\ WF_vars(HubRecvBroadcast)
    /\ WF_vars(HubShutdown)
    /\ \A c \in Clients :
          /\ WF_vars(HubRegister(c))
          /\ WF_vars(HubUnregisterReader(c))
          /\ WF_vars(HubUnregisterSender(c))
          /\ WF_vars(HubDeliver(c))
          /\ WF_vars(FilteredVisit(c))
          /\ WF_vars(StartPumps(c))
          /\ WF_vars(ReadClosed(c))
          /\ WF_vars(WriterRecv(c, TRUE))
          /\ WF_vars(WriterLen(c))
          /\ WF_vars(WriterCoalesce(c))
          /\ WF_vars(WriterFlush(c, TRUE))
          /\ WF_vars(WriterClosed(c))

SpecFair == Init /\ [][Next]_vars /\ Fairness

\* The hub loop serving register and unregister requests only: sessions made
\* by NewClient and handed to RegisterClient / UnregisterClient in any order
\* and any number of times, and sessions connected through ServeHTTP whose
\* reader ends.  No broadcast, no Client.Send and no shutdown takes place.
NextReg ==
    \/ HubStart
    \/ \E c \in Clients : RegisterClient(c)
    \/ \E c \in Clients : HubRegisterApi(c)
    \/ \E c \in Clients : UnregisterClient(c)
    \/ \E c \in Clients : HubUnregisterApi(c)
    \/ \E c \in Clients, method \in Methods, upgraded \in BOOLEAN :
            ServeHTTP(c, method, upgraded, Query[c][1], Query[c][2])
    \/ \E c \in Clients : HubRegister(c)
    \/ \E c \in Clients : StartPumps(c)
    \/ \E c \in Clients : ReadError(c)
    \/ \E c \in Clients : HubUnregisterReader(c)

SpecReg == Init /\ [][NextReg]_vars

\* The hub's loop and the typed helpers, with no session ever connecting.
NextTyped ==
    \/ HubStart
    \/ HubRecvBroadcast
    \/ Shutdown
    \/ HubShutdown
    \/ \E a, b \in Ids, e \in HelperEntities : BroadcastTaskCreated(a, b, e)
    \/ \E a, b \in Ids, ch \in HelperChanges, e \in HelperEntities :
            BroadcastTaskUpdated(a, b, ch, e)
    \/ \E a, b \in Ids : BroadcastTaskDeleted(a, b)
    \/ \E a \in Ids, e \in HelperEntities : BroadcastProjectCreated(a, e)
    \/ \E a \in Ids, ch \in HelperChanges, e \in HelperEntities :
            BroadcastProjectUpdated(a, ch, e)
    \/ \E a, b \in Ids, ch \in HelperChanges, e \in HelperEntities :
            BroadcastBoardUpdated(a, b, ch, e)

SpecTyped == Init /\ [][NextTyped]_vars

\* The REST handlers in front of the hub's loop, with no session connecting.
NextRest ==
    \/ HubStart
    \/ HubRecvBroadcast
    \/ \E op \in RestOps, hub \in BOOLEAN : RestBegin(op, hub)
    \/ \E ok \in BOOLEAN : RestDecode(ok)
    \/ \E ok \in BOOLEAN : RestStore(ok)
    \/ \E ok \in BOOLEAN : RestBroadcast(ok)

SpecRest == Init /\ [][NextRest]_vars

\* The constructors applied to every input of the bounded sets, and the
\* envelope parsed back.
NextMsg ==
    \/ \E a \in ErrorCodes, b \in Ids, d \in {"", "d"} : CallNewErrorMessage(a, b, d)
    \/ \E a, b \in Ids, e \in Entities : CallNewTaskCreatedMessage(a, b, e)
    \/ \E a, b \in Ids, ch \in ChangeSets, e \in Entities :
            CallNewTaskUpdatedMessage(a, b, ch, e)
    \/ \E a, b \in Ids : CallNewTaskDeletedMessage(a, b)
    \/ \E a \in Ids, e \in Entities : CallNewProjectCreatedMessage(a, e)
    \/ \E a \in Ids, ch \in ChangeSets, e \in Entities :
            CallNewProjectUpdatedMessage(a, ch, e)
    \/ \E a, b \in Ids, ch \in ChangeSets, e \in Entities :
            CallNewBoardUpdatedMessage(a, b, ch, e)
    \/ ParseBack

SpecMsg == Init /\ [][NextMsg]_vars


\* --------------------------------------------------------------- helpers
RECURSIVE SeqToSet(_)
SeqToSet(q) == IF q = <<>> THEN {} ELSE {Head(q)} \cup SeqToSet(Tail(q))

\* Everything session c was handed, oldest first: what its writer wrote, then
\* what is still queued.
Delivered(c) == written[c] \o send[c]

\* --------------------------------------------------------------- claims

\* C1: Broadcast never blocks its caller.  In every state of the running
\* process (hub loop not started, running or shut down; relay empty or full;
\* sessions however slow) a BroadcastMessage call can take its step, and a
\* call made while the relay is full leaves the relay as it was and drops the
\* envelope.
C1_BroadcastNeverBlocks ==
    /\ []((Alive /\ inputs < MaxInputs) => ENABLED BroadcastMessage(TRUE))
    /\ [][\A ok \in BOOLEAN :
            (BroadcastMessage(ok) /\ Len(broadcast) = RelayCap)
                => /\ broadcast' = broadcast
                   /\ ok => nextId \in dropped'
                   /\ UNCHANGED <<clients, send, closed, panicked>>]_vars

\* A BroadcastMessage call found the relay full and dropped its envelope,
\* with the hub loop stopped.
C1_Witness == dropped # {} /\ Len(broadcast) = RelayCap /\ hubPc = "done"


\* C2: when the hub loop delivers a relayed envelope and finds a session
\* whose queue is at capacity, that session is removed from the registry and
\* its queue is closed, every other session stays registered, and the loop
\* goes on: a visited session with free queue space receives the envelope.
C2_FullQueueEvictedOthersServed ==
    [][\A c \in Clients :
        HubDeliver(c)
            => /\ Alive'
               /\ Len(send[c]) = QueueCap
                    => /\ c \notin clients'
                       /\ closed'[c]
                       /\ clients' = clients \ {c}
               /\ Len(send[c]) < QueueCap
                    => /\ send'[c] = Append(send[c], hubMsg)
                       /\ clients' = clients]_vars

\* C3: no task ever attempts to enqueue onto a session queue that has been
\* closed (in Go the attempt panics).
C3_NoEnqueueOnClosedQueue == panicked # "send on closed queue"

\* C4: a session's outbound queue is closed exactly once, whatever teardown
\* triggers occur and in whatever order: no task ever closes a queue that is
\* already closed (in Go the second close panics).
C4_QueueClosedOnce == panicked # "close of closed queue"

\* C5: after Shutdown() the hub's event loop stops, every session that was
\* registered has its queue closed, and ClientCount() is 0 and stays 0: the
\* loop's shutdown case ends the loop with the registry empty and every
\* registered queue closed, and from then on the loop stays stopped and the
\* registry stays empty.
C5_ShutdownStopsLoopAndEmptiesRegistry ==
    /\ [][HubShutdown
            => /\ hubPc' = "done"
               /\ clients' = {}
               /\ \A c \in clients : closed'[c]]_vars
    /\ [][hubPc = "done" => (hubPc' = "done" /\ clients' = {})]_vars
    /\ [](hubPc = "done" => Cardinality(clients) = 0)

\* C6: after Shutdown() a further Register call is a no-op: a RegisterClient
\* call made once the loop has stopped returns to its caller (the caller is
\* not left waiting on the register channel) and leaves the registry
\* unchanged.
C6_RegisterAfterShutdownReturns ==
    [][\A c \in Clients :
        (hubPc = "done" /\ ServeHTTP(c, "GET", TRUE, Query[c][1], Query[c][2]))
            => (c \notin regWait' /\ clients' = clients)]_vars

\* C7: for any sequence of Register and Unregister requests handled by the
\* hub loop, ClientCount() equals the number of registrations that added a
\* session minus the number of unregistrations that found the session
\* present; registering a registered session leaves the registry as it is,
\* and an Unregister of an absent session changes neither the registry nor
\* any queue.
C7_CountIsAddedMinusRemoved ==
    /\ [](Cardinality(clients) = nAdded - nRemoved)
    /\ [][\A c \in Clients :
            /\ (HubRegisterApi(c) /\ c \in clients) => clients' = clients
            /\ ((HubUnregisterApi(c) \/ HubUnregisterReader(c)) /\ c \notin clients)
                 => UNCHANGED <<clients, send, closed, nRemoved>>]_vars

\* Two sessions were added and one of them removed again; every request of
\* the budget has been made and handled, so a repeated Register or an
\* Unregister of an absent session was among them and changed nothing.
C7_Witness ==
    /\ nAdded = 2
    /\ nRemoved = 1
    /\ Cardinality(clients) = 1
    /\ \E c \in Clients : c \notin clients /\ closed[c]
    /\ inputs = MaxInputs
    /\ apiReg = {} /\ apiUnreg = {} /\ regWait = {}
    /\ \A c \in Clients : rPc[c] # "unreg"

\* C8: BroadcastToFiltered(msg, key, value) enqueues the envelope only onto
\* sessions whose filter holds key with exactly that value: every filtered
\* envelope a session was handed names a key of the session's filter and the
\* value the filter gives it.
C8_FilteredOnlyToMatching ==
    \A c \in Clients : \A m \in SeqToSet(Delivered(c)) :
        m.via = "filtered"
            => (m.key \in DOMAIN filters[c] /\ filters[c][m.key] = m.val)

\* A filtered envelope reached the scoped session while the unscoped session
\* was registered and received nothing.
C8_Witness ==
    /\ \E m \in SeqToSet(Delivered("c1")) : m.via = "filtered"
    /\ "c2" \in clients
    /\ Delivered("c2") = <<>>
    /\ fPc = "idle"

\* The relayed envelopes of a sequence, oldest first.
RECURSIVE RelayIds(_)
RelayIds(q) ==
    IF q = <<>> THEN <<>>
    ELSE IF Head(q).via = "relay" THEN <<Head(q).id>> \o RelayIds(Tail(q))
    ELSE RelayIds(Tail(q))

Increasing(ids) == \A i, j \in 1..Len(ids) : i < j => ids[i] < ids[j]

\* C9: delivery to a session preserves the hub's relay order.  Envelopes are
\* accepted into the relay in the order of their identities, so the relayed
\* envelopes written to a session's transport followed by those still in its
\* queue carry increasing identities, and so does the relay itself.
C9_RelayOrderPreserved ==
    /\ Increasing(RelayIds(broadcast))
    /\ \A c \in Clients : Increasing(RelayIds(Delivered(c)))

\* A session's writer wrote two relayed envelopes and a third is queued.
C9_Witness ==
    \E c \in Clients :
        /\ Len(RelayIds(written[c])) >= 2
        /\ Len(RelayIds(send[c])) >= 1

\* The identities of the envelopes passed to Broadcast* in a sequence.
RECURSIVE BroadcastIds(_)
BroadcastIds(q) ==
    IF q = <<>> THEN <<>>
    ELSE IF Head(q).id > 0 THEN <<Head(q).id>> \o BroadcastIds(Tail(q))
    ELSE BroadcastIds(Tail(q))

NoDuplicate(ids) == \A i, j \in 1..Len(ids) : i # j => ids[i] # ids[j]

\* C10: delivery is at-most-once.  An envelope passed to one Broadcast call
\* occurs at most once in what a session was handed (written or queued) and
\* at most once in the relay; an envelope dropped because the relay was full
\* is nowhere afterwards, and the envelope whose delivery evicted a session
\* never reaches that session.
C10_AtMostOnce ==
    /\ NoDuplicate(BroadcastIds(broadcast))
    /\ \A c \in Clients :
        /\ NoDuplicate(BroadcastIds(Delivered(c)))
        /\ \A i \in SeqToSet(BroadcastIds(Delivered(c))) :
              /\ i \notin dropped
              /\ <<c, i>> \notin missed
              /\ i \notin SeqToSet(BroadcastIds(broadcast))
              /\ (hubPc = "bcast" /\ c \in hubVisit) => hubMsg.id # i
    /\ \A i \in dropped :
        /\ i \notin SeqToSet(BroadcastIds(broadcast))
        /\ hubMsg.id # i

\* One envelope was dropped at the full relay, another evicted a session, and
\* a third was written to that session's transport.
C10_Witness ==
    /\ dropped # {}
    /\ \E c \in Clients :
        /\ \E i \in 1..MaxInputs : <<c, i>> \in missed
        /\ BroadcastIds(written[c]) # <<>>

\* C11: no single session's failure is fatal to the hub.  Every step that
\* is, or handles, a session's failure (its reader's error, its writer's
\* error, its unregistering, a Client.Send on it, its eviction for a full
\* queue), taken while the hub's loop is running and has not been asked to
\* shut down, leaves the process alive and the loop running, and leaves
\* every other session registered.
C11_SessionFailureNotFatal ==
    [][\A c \in Clients :
        (/\ hubPc \in {"select", "bcast"}
         /\ ~shutdown
         /\ \/ ReadError(c)
            \/ HubUnregisterReader(c)
            \/ HubUnregisterSender(c)
            \/ ClientSend(c)
            \/ WriterRecv(c, FALSE)
            \/ WriterFlush(c, FALSE)
            \/ WriterPingFail(c)
            \/ (HubDeliver(c) /\ Len(send[c]) = QueueCap))
            => /\ Alive'
               /\ hubPc' \in {"select", "bcast"}
               /\ clients \ {c} \subseteq clients']_vars

\* C12: whenever a delivery finds a session's queue full, the session is
\* forcibly disconnected: it is removed from the registry and its queue is
\* closed, in a relayed delivery by the hub loop and in a BroadcastToFiltered
\* delivery to a matching session alike.
C12_FullQueueDisconnects ==
    [][\A c \in Clients :
        (/\ c \in clients
         /\ ~closed[c]
         /\ Len(send[c]) = QueueCap
         /\ \/ HubDeliver(c)
            \/ (FilteredVisit(c) /\ Matches(c, fMsg.key, fMsg.val)))
            => (c \notin clients' /\ closed'[c])]_vars

\* C14: when the reader handles a ping frame, exactly one pong envelope is
\* appended to that session's queue and nothing else about the session or
\* the registry changes.
C14_PingAppendsOnePong ==
    [][\A c \in Clients :
        ReadFrame(c, "ping")
            => /\ send'[c] = Append(send[c], PongMsg)
               /\ \A d \in Clients \ {c} : send'[d] = send[d]
               /\ UNCHANGED <<clients, closed, filters, panicked>>]_vars

\* C15: BroadcastMessage returns an error only when serializing the envelope
\* fails, and then nothing is put on the relay and no queue or registry entry
\* changes; a call that drops its envelope at the full relay returns nil.
C15_ErrorOnlyOnSerialization ==
    [][\A ok \in BOOLEAN :
        BroadcastMessage(ok)
            => /\ (ret' = "error") <=> ~ok
               /\ ok => ret' = "nil"
               /\ ~ok => UNCHANGED <<broadcast, dropped, nextId, hubVars,
                                     sessVars, filtVars, panicked>>
               /\ UNCHANGED <<clients, send, closed>>]_vars

\* The last BroadcastMessage call failed to serialize and returned its
\* error, after an earlier call had dropped an envelope at the full relay,
\* with a session registered.
C15_Witness == ret = "error" /\ dropped # {} /\ clients # {}

\* C16 as stated: every inbound frame whose kind is not ping or pong is
\* ignored: nothing is enqueued, the session stays registered, its queue and
\* filter are unchanged.
C16_OtherFramesIgnored ==
    [][\A c \in Clients : \A kind \in FrameKinds \ {"ping", "pong"} :
        ReadFrame(c, kind)
            => UNCHANGED <<send, clients, closed, filters, panicked>>]_vars

\* C16 amended: a frame that deserializes into an envelope of a kind other
\* than ping and pong is ignored (nothing enqueued, registry, queues and
\* filters unchanged); a frame that does not deserialize is answered: with
\* the queue open and not full, one error envelope is appended to it.
C16_UnknownKindIgnoredInvalidAnswered ==
    [][\A c \in Clients :
        /\ ReadFrame(c, "other")
             => UNCHANGED <<send, clients, closed, filters, panicked, hubVars,
                            sessVars>>
        /\ (ReadFrame(c, "invalid") /\ ~closed[c] /\ Len(send[c]) < QueueCap)
             => /\ send'[c] = Append(send[c], ErrorMsg)
                /\ UNCHANGED <<clients, closed, filters, panicked>>]_vars

\* A registered session whose reader is still reading was sent an error
\* envelope for a frame that did not deserialize.
C16_Witness ==
    \E c \in Clients :
        /\ c \in clients
        /\ rPc[c] = "read"
        /\ \E i \in 1..Len(Delivered(c)) : Delivered(c)[i] = ErrorMsg

\* C17: the handler rejects every request whose method is not GET before
\* upgrading: it answers 405, makes no session, registers nothing with the
\* hub and starts no pump.
C17_NonGetRejected ==
    [][\A c \in Clients : \A method \in Methods \ {"GET"} :
       \A upgraded \in BOOLEAN :
        ServeHTTP(c, method, upgraded, Query[c][1], Query[c][2])
            => /\ resp'[c] = "405"
               /\ UNCHANGED <<hubVars, sessVars, filtVars, panicked>>]_vars

\* A request was answered 405 and left no session behind, while another
\* connection is being served.
C17_Witness ==
    \E c, d \in Clients :
        /\ resp[c] = "405"
        /\ hPc[c] = "none" /\ rPc[c] = "off" /\ wPc[c] = "off"
        /\ c \notin clients \cup regWait
        /\ hPc[d] = "serving"


\* Whether json.Marshal accepts a Go value: it is no channel and, if a map,
\* holds no channel.
Encodable(x) ==
    /\ x.dyn # "chan"
    /\ \A k \in DOMAIN x.entries : x.entries[k].dyn # "chan"

\* What a typed helper returns for a payload: the constructor's error when a
\* part of the payload cannot be encoded, nil otherwise.
TypedResult(encodable) == IF encodable THEN "nil" ELSE "error"

\* What a typed helper's step does when no session is registered: the
\* registry stays empty, the result is TypedResult, and on an error the relay
\* is untouched.
TypedOutcome(encodable) ==
    /\ clients' = {}
    /\ ret' = TypedResult(encodable)
    /\ ~encodable => broadcast' = broadcast

\* C13 (as stated): with no session registered, every typed Broadcast* helper
\* (task created / updated / deleted, project created / updated, board
\* updated) can always take its step, returns nil and leaves the registry
\* empty, whatever ids, changes and entity it is given.
C13_ZeroSessionsNeverErrors ==
    [][\A a, b \in Ids, ch \in HelperChanges, e \in HelperEntities :
         (/\ clients = {}
          /\ \/ BroadcastTaskCreated(a, b, e)
             \/ BroadcastTaskUpdated(a, b, ch, e)
             \/ BroadcastTaskDeleted(a, b)
             \/ BroadcastProjectCreated(a, e)
             \/ BroadcastProjectUpdated(a, ch, e)
             \/ BroadcastBoardUpdated(a, b, ch, e))
         => (ret' = "nil" /\ clients' = {})]_vars

\* C13 (amended): with no session registered, every typed Broadcast* helper
\* can always take its step (it never blocks) and leaves the registry empty;
\* it returns nil when its changes and entity can be serialized, whether the
\* envelope went onto the relay or was dropped at a full relay, and returns
\* the constructor's error, with the relay untouched, when they cannot.
C13_ZeroSessionsNeverBlocksErrorsOnlyOnPayload ==
    /\ []((Alive /\ inputs < MaxInputs /\ clients = {}) =>
            \A a, b \in Ids, ch \in HelperChanges, e \in HelperEntities :
                /\ ENABLED BroadcastTaskCreated(a, b, e)
                /\ ENABLED BroadcastTaskUpdated(a, b, ch, e)
                /\ ENABLED BroadcastTaskDeleted(a, b)
                /\ ENABLED BroadcastProjectCreated(a, e)
                /\ ENABLED BroadcastProjectUpdated(a, ch, e)
                /\ ENABLED BroadcastBoardUpdated(a, b, ch, e))
    /\ [][clients = {} =>
            /\ \A a, b \in Ids, e \in HelperEntities :
                  BroadcastTaskCreated(a, b, e) =>
                    TypedOutcome(Encodable(e))
            /\ \A a, b \in Ids, ch \in HelperChanges, e \in HelperEntities :
                  BroadcastTaskUpdated(a, b, ch, e) =>
                    TypedOutcome(Encodable(ch) /\ Encodable(e))
            /\ \A a, b \in Ids :
                  BroadcastTaskDeleted(a, b) => TypedOutcome(TRUE)
            /\ \A a \in Ids, e \in HelperEntities :
                  BroadcastProjectCreated(a, e) =>
                    TypedOutcome(Encodable(e))
            /\ \A a \in Ids, ch \in HelperChanges, e \in HelperEntities :
                  BroadcastProjectUpdated(a, ch, e) =>
                    TypedOutcome(Encodable(ch) /\ Encodable(e))
            /\ \A a, b \in Ids, ch \in HelperChanges, e \in HelperEntities :
                  BroadcastBoardUpdated(a, b, ch, e) =>
                    TypedOutcome(Encodable(ch) /\ Encodable(e))]_vars

\* A typed helper was called with no session registered while the relay was
\* full: it returned nil and the envelope was dropped.
C13_Witness ==
    /\ clients = {}
    /\ ret = "nil"
    /\ Len(broadcast) = RelayCap
    /\ dropped # {}

\* The kind and the action verb the catalogue fixes for each constructor
\* (an error envelope has no verb).
FixedKind(ctor) ==
    CASE ctor = "NewTaskCreatedMessage" -> "task.created"
      [] ctor = "NewTaskUpdatedMessage" -> "task.updated"
      [] ctor = "NewTaskDeletedMessage" -> "task.deleted"
      [] ctor = "NewProjectCreatedMessage" -> "project.created"
      [] ctor = "NewProjectUpdatedMessage" -> "project.updated"
      [] ctor = "NewBoardUpdatedMessage" -> "board.updated"
      [] OTHER -> "error"

FixedVerb(ctor) ==
    CASE ctor \in {"NewTaskCreatedMessage", "NewProjectCreatedMessage"} ->
            "created"
      [] ctor = "NewTaskDeletedMessage" -> "deleted"
      [] OTHER -> "updated"

TaskCtors ==
    {"NewTaskCreatedMessage", "NewTaskUpdatedMessage", "NewTaskDeletedMessage"}
ProjectCtors == {"NewProjectCreatedMessage", "NewProjectUpdatedMessage"}

\* The ids a payload carries, in the order the constructor takes them, and
\* its action verb.
PayloadIds(ctor, data) ==
    CASE ctor \in TaskCtors ->
            <<data.members.task_id.lit, data.members.board_id.lit>>
      [] ctor \in ProjectCtors -> <<data.members.project_id.lit, "">>
      [] ctor = "NewBoardUpdatedMessage" ->
            <<data.members.board_id.lit, data.members.project_id.lit>>
      [] OTHER -> <<data.members.code.lit, data.members.message.lit>>

PayloadVerb(data) == data.members.action.lit

\* C18 (as stated): whatever its inputs, a kind-specific constructor returns
\* an envelope whose kind is the constructor's fixed kind and whose payload
\* carries the matching action verb and the ids it was given.
C18_ConstructorsKeepKindVerbIds ==
    msg.ctor # "" =>
        /\ ~msg.failed
        /\ msg.envelope.Type = FixedKind(msg.ctor)
        /\ msg.ctor # "NewErrorMessage" =>
              /\ PayloadVerb(msg.envelope.Data) = FixedVerb(msg.ctor)
              /\ PayloadIds(msg.ctor, msg.envelope.Data) = <<msg.arg1, msg.arg2>>

\* C18 (amended): when the changes and the entity it is given can be
\* serialized, a kind-specific constructor returns an envelope whose kind is
\* the constructor's fixed kind and whose payload carries the matching action
\* verb and the ids it was given, every byte of an id that is not valid UTF-8
\* replaced by U+FFFD; when they cannot, it returns an error and no envelope.
\* NewErrorMessage always returns an envelope of kind error.
C18_ConstructorsKeepKindVerbValidIds ==
    msg.ctor # "" =>
        IF Encodable(msg.argChanges) /\ Encodable(msg.argEntity)
        THEN /\ ~msg.failed
             /\ msg.envelope.Type = FixedKind(msg.ctor)
             /\ msg.ctor # "NewErrorMessage" =>
                   /\ PayloadVerb(msg.envelope.Data) = FixedVerb(msg.ctor)
                   /\ PayloadIds(msg.ctor, msg.envelope.Data) =
                        <<ToValidUTF8(msg.arg1), ToValidUTF8(msg.arg2)>>
        ELSE /\ msg.failed
             /\ msg.envelope = NoEnvelope

\* NewTaskDeletedMessage was called with an id that is not valid UTF-8 and
\* returned a task.deleted envelope with the verb deleted.
C18_Witness ==
    /\ msg.ctor = "NewTaskDeletedMessage"
    /\ msg.arg1 = BadUtf8
    /\ ~msg.failed
    /\ msg.envelope.Type = "task.deleted"
    /\ PayloadVerb(msg.envelope.Data) = "deleted"

\* What a Go value is once its dynamic type is set aside: an int and a
\* float64 are both numbers, a nil map and a map without entries both hold
\* nothing.
ValueKind(x) ==
    CASE x.dyn \in {"int", "float64"} -> "number"
      [] x.dyn = "nilmap" \/ (x.dyn = "map" /\ DOMAIN x.entries = {}) -> "empty"
      [] OTHER -> x.dyn

\* Two Go values hold the same data: the same kind of value, the same text,
\* and entry by entry the same.
SameValue(x, y) ==
    /\ ValueKind(x) = ValueKind(y)
    /\ x.text = y.text
    /\ DOMAIN x.entries = DOMAIN y.entries
    /\ \A k \in DOMAIN x.entries :
          /\ ValueKind(x.entries[k]) = ValueKind(y.entries[k])
          /\ x.entries[k].text = y.entries[k].text

\* A Go value with every number in it replaced by the nearest float64.
Rounded(x) ==
    CASE x.dyn \in {"int", "float64"} -> GoFloat(Float64Of(x.text))
      [] x.dyn = "map" ->
            GoMap([k \in DOMAIN x.entries |->
                     IF x.entries[k].dyn \in {"int", "float64"}
                     THEN GoFloat(Float64Of(x.entries[k].text))
                     ELSE x.entries[k]])
      [] OTHER -> x

RoundTripped == parsed # NoParse /\ msg.ctor = "NewTaskUpdatedMessage"

C20_RegistryWrittenOnlyUnderWriteLock ==
    /\ [][~WriteLockFree => clients' = clients]_vars
    /\ [](panicked # "concurrent map iteration and map write")

HubRunning == hubPc \in {"select", "bcast"} /\ ~shutdown

\* Session c's teardown is complete: it is absent from the registry, its
\* queue is closed and both its pumps have returned.
TornDown(c) ==
    /\ c \notin clients
    /\ closed[c]
    /\ rPc[c] = "done"
    /\ wPc[c] = "done"

\* C21: after a session's reader hits a read error while the hub loop is
\* running, the session is eventually absent from the registry with its queue
\* closed and both its reader and its writer returned.
C21_ReadErrorTearsDown ==
    \A c \in Clients :
        (rPc[c] = "unreg" /\ HubRunning) ~> TornDown(c)

\* The writer returned on a write failure: it is done while the queue is
\* still open (WriterClosed, the other way out, needs the queue closed).
WriteFailed(c) == wPc[c] = "done" /\ ~closed[c]

\* C22: after a session's writer hit a write failure (data frame or ping)
\* while the hub loop is running, the session is eventually out of the
\* registry with its queue closed.
C22_WriteFailureTearsDown ==
    \A c \in Clients :
        (WriteFailed(c) /\ HubRunning) ~> (c \notin clients /\ closed[c])

\* C23: after Shutdown every registered session eventually completes its
\* teardown: it is out of the registry, its queue is closed, its writer has
\* returned and its reader has returned (releasing the transport).
C23_ShutdownTearsDownEverySession ==
    \A c \in Clients : (shutdown /\ c \in clients) ~> TornDown(c)

\* One step of session c seen from its closed queue: an envelope leaves the
\* queue only from its head and onto the end of what was written, and the
\* writer terminates only with the queue empty.
DrainsInOrder(c) ==
    /\ send'[c] # send[c] =>
          /\ send[c] # <<>>
          /\ send'[c] = Tail(send[c])
          /\ written'[c] = Append(written[c], Head(send[c]))
    /\ (wPc[c] # "done" /\ wPc'[c] = "done") => (send[c] = <<>> /\ send'[c] = <<>>)

\* C24: once a session's queue is closed its writer drains and exits: every
\* envelope left in the queue is written to the transport, in order, before
\* the writer terminates, and the writer does terminate.
C24_ClosedQueueDrainsThenExits ==
    /\ [][\A c \in Clients : closed[c] => DrainsInOrder(c)]_vars
    /\ \A c \in Clients : closed[c] ~> (wPc[c] = "done" /\ send[c] = <<>>)

\* The step in which broadcastToAll visits session c.
Visits(c) == hubPc = "bcast" /\ c \in hubVisit /\ c \notin hubVisit'

\* C25: while the hub loop is running and not shut down, every envelope
\* accepted into the relay is eventually taken by the loop, the loop visits
\* every session that was registered when it took the envelope, and a
\* visited session with free queue space gets the envelope enqueued.
C25_RelayedEnvelopeReachesSessions ==
    /\ (HubRunning /\ broadcast # <<>>) ~> (broadcast = <<>> \/ ~HubRunning)
    /\ \A c \in Clients :
          (HubRunning /\ hubPc = "bcast" /\ c \in hubVisit) ~> (c \notin hubVisit)
    /\ [][\A c \in Clients :
             (Visits(c) /\ Len(send[c]) < QueueCap)
                => send'[c] = Append(send[c], hubMsg)]_vars

\* Session c's queue is open and holds QueueCap envelopes.
QueueFull(c) == Len(send[c]) = QueueCap /\ ~closed[c]

\* What a step may do to session c's full queue: only its head may leave;
\* broadcastToAll's visit and Client.Send end in disconnection; a pong or
\* error reply and a filtered delivery are dropped and change nothing.
OverflowOutcome(c) ==
    /\ send'[c] \in {send[c], Tail(send[c])}
    /\ Visits(c) => (closed'[c] /\ c \notin clients')
    /\ ClientSend(c) => (closed'[c] /\ sPc'[c] = "unreg")
    /\ ((\E kind \in FrameKinds : ReadFrame(c, kind)) \/ FilteredVisit(c))
          => (send'[c] = send[c] /\ closed'[c] = closed[c] /\ clients' = clients)

\* C26: the relay never holds more than RelayCap envelopes and no queue
\* more than QueueCap; an enqueue that finds the relay or a queue full is
\* dropped or ends in the session's disconnection, never in growth.
C26_CapacitiesNeverExceeded ==
    /\ [](Len(broadcast) <= RelayCap /\ \A c \in Clients : Len(send[c]) <= QueueCap)
    /\ [][/\ Len(broadcast) = RelayCap => broadcast' \in {broadcast, Tail(broadcast)}
          /\ \A c \in Clients : QueueFull(c) => OverflowOutcome(c)]_vars

\* A full queue's session was visited by broadcastToAll and disconnected.
C26_Witness ==
    \E c \in Clients :
        /\ Len(send[c]) = QueueCap /\ closed[c] /\ c \notin clients
        /\ \E i \in 1..MaxInputs : <<c, i>> \in missed

\* C27: the registry lock is never held across a step that can block:
\* whatever the state of the sessions' queues, every remaining visit of an
\* iteration under the read lock can be taken, and the loop's write-lock
\* sections (unregister case, closeAllClients) can be taken as soon as the
\* lock is free.
C27_LockHolderNeverBlocks ==
    Alive =>
       /\ hubPc = "bcast" =>
             (hubVisit # {} /\ \A c \in hubVisit : ENABLED HubDeliver(c))
       /\ fPc = "iter" =>
             (fVisit # {} /\ \A c \in fVisit : ENABLED FilteredVisit(c))
       /\ (hubPc = "select" /\ WriteLockFree) =>
             /\ shutdown => ENABLED HubShutdown
             /\ \A c \in Clients :
                   /\ rPc[c] = "unreg" => ENABLED HubUnregisterReader(c)
                   /\ sPc[c] = "unreg" => ENABLED HubUnregisterSender(c)

\* Both iterations hold the read lock with a full queue still to visit.
C27_Witness ==
    \E c \in Clients :
        /\ hubPc = "bcast" /\ c \in hubVisit
        /\ fPc = "iter" /\ c \in fVisit /\ Matches(c, fMsg.key, fMsg.val)
        /\ QueueFull(c)

\* RegisterClient has been called for session c (by the handler, or directly).
RegisterCalled(c) == hPc[c] # "none" \/ c \in apiReg \/ c \in clients

\* C28: a session's filter holds only the keys project_id and board_id, each
\* with a non-empty value taken from the query; it is written in the step
\* that connects the session, starting from the empty filter, and no step
\* changes it once RegisterClient has been called for the session.
C28_FilterSetOnceAtConnect ==
    /\ [](\A c \in Clients : \A k \in DOMAIN filters[c] :
             k \in {"project_id", "board_id"} /\ filters[c][k] # "")
    /\ [][\A c \in Clients :
             /\ RegisterCalled(c) => filters'[c] = filters[c]
             /\ filters'[c] # filters[c] =>
                   (filters[c] = NoFilter /\ hPc'[c] = "registering")]_vars

\* A served session that asked for a project only (its board_id parameter
\* was empty) has been sent a filtered envelope.
C28_Witness ==
    \E c \in Clients :
        /\ hPc[c] = "serving"
        /\ DOMAIN filters[c] = {"project_id"}
        /\ \E i \in 1..Len(written[c]) : written[c][i].via = "filtered"

\* client.go's time constants, in seconds: pongWait, and
\* pingPeriod = (pongWait * 9) / 10.
PongWait == 60
PingPeriod == (PongWait * 9) \div 10

\* C29: the ping period (54 s) is strictly less than the read deadline's
\* window (60 s), and once the read deadline has passed with no pong and
\* the reader's read has failed, the session is eventually out of the
\* registry with its queue closed.
C29_SilentPeerTornDown ==
    /\ [](PingPeriod = 54 /\ PingPeriod < PongWait)
    /\ \A c \in Clients : rPc[c] = "unreg" ~> (c \notin clients /\ closed[c])

\* C30: when the reader handles a frame that does not deserialize, at most
\* one error envelope is appended to that session's own queue and none when
\* the queue is full; no other queue changes, the session stays registered
\* with its queue open as it was, and the reader goes on reading.
C30_InvalidFrameAnsweredOnce ==
    [][\A c \in Clients :
        ReadFrame(c, "invalid")
            => /\ send'[c] \in {send[c], Append(send[c], ErrorMsg)}
               /\ Len(send[c]) = QueueCap => send'[c] = send[c]
               /\ \A d \in Clients \ {c} : send'[d] = send[d]
               /\ UNCHANGED <<clients, closed, filters>>
               /\ rPc'[c] = "read" /\ panicked' = "none"]_vars

\* The current request is served and its handler holds a Broadcast* call.
RestServed == restPc = "done" /\ RestBroadcasts(restOp)

\* C31 as stated: a handler issues a Broadcast* call only after its
\* repository write succeeded, and once it has answered it has issued
\* exactly one call if the write succeeded and none if the write or the
\* decoding failed.
C31_OneBroadcastAfterCommit ==
    /\ restCalls > 0 => restCommitted
    /\ RestServed => restCalls = (IF restCommitted THEN 1 ELSE 0)

\* C31 amended: the same for a handler built with a hub; a handler built
\* without one (h.wsHub = nil) issues no call at all.
C31_OneBroadcastAfterCommitWithHub ==
    /\ restCalls > 0 => restCommitted
    /\ RestServed => restCalls = (IF restCommitted /\ restHub THEN 1 ELSE 0)

\* deleteTask read the task, deleted it, issued its one call and answered
\* 204, the envelope being on the relay.
C31_Witness ==
    /\ restOp = "deleteTask" /\ restPc = "done" /\ restStatus = 204
    /\ restCommitted /\ restCalls = 1 /\ broadcast # <<>>

\* s is a prefix of t.
IsPrefix(s, t) == Len(s) <= Len(t) /\ SubSeq(t, 1, Len(s)) = s

\* C32 as stated: what the writer wrote is always a prefix of what was
\* enqueued onto the session's queue, and the number of envelopes it sets
\* out to coalesce is at most the number that was queued when it opened the
\* frame.
C32_WrittenPrefixCoalesceAtOpen ==
    /\ [](\A c \in Clients : IsPrefix(written[c], enq[c]))
    /\ [][\A c \in Clients :
             (wPc[c] = "wrote" /\ wPc'[c] = "coalesce") => wN'[c] <= wOpen[c]]_vars

\* C32 amended: what the writer wrote is always a prefix of what was
\* enqueued; the writer counts the queue after it wrote the frame's first
\* envelope, and the envelopes it has still to coalesce are always in the
\* queue already.
C32_WrittenPrefixCoalesceQueued ==
    /\ [](\A c \in Clients :
             /\ IsPrefix(written[c], enq[c])
             /\ wPc[c] = "coalesce" => wN[c] <= Len(send[c]))
    /\ [][\A c \in Clients :
             (wPc[c] = "wrote" /\ wPc'[c] = "coalesce")
                => wN'[c] = Len(send[c])]_vars

\* The writer is coalescing an envelope that was enqueued after it opened
\* the frame, having written the frame's first envelope.
C32_Witness ==
    \E c \in Clients :
        /\ wPc[c] = "coalesce" /\ wN[c] > wOpen[c]
        /\ written[c] # <<>> /\ IsPrefix(written[c], enq[c])

\* In the sequence q a filtered envelope stands before a relayed envelope
\* that its producer issued earlier (envelopes are numbered as issued).
OvertakenByFiltered(q) ==
    \E a, b \in 1..Len(q) :
        /\ a < b
        /\ q[a].via = "filtered" /\ q[b].via = "relay"
        /\ q[b].id < q[a].id

\* C33: envelopes reach a session in the order they were issued, whether
\* issued through BroadcastMessage or BroadcastToFiltered: no session has a
\* filtered envelope enqueued before a relayed envelope issued earlier.
C33_IssueOrderAcrossBroadcasts ==
    \A c \in Clients : ~OvertakenByFiltered(enq[c])

\* C34: a session that is in the registry has an open queue, and a session
\* whose queue has been closed is not in the registry.
C34_RegisteredIffQueueOpen ==
    \A c \in Clients : ~(c \in clients /\ closed[c])

\* Session c's reader has left its read loop (it is sending its unregister
\* request, or has returned).
ReaderEnded(c) == rPc[c] \in {"unreg", "done"}

\* C35: a session connected through the handler submits its unregister
\* request only after the hub accepted its register request, and while the
\* hub loop is running a session whose reader has ended does not stay in
\* the registry for ever.
C35_UnregisterAfterRegisterNoZombie ==
    /\ [](\A c \in Clients :
             ReaderEnded(c) => (hPc[c] = "serving" /\ c \notin regWait))
    /\ \A c \in Clients :
          (ReaderEnded(c) /\ HubRunning) ~> (c \notin clients \/ ~HubRunning)

\* A session task blocked on the hub's unbuffered register or unregister
\* channel: ServeHTTP inside RegisterClient, ReadPump's deferred unregister,
\* Client.Send's unregister after an overflow.
BlockedOnHub(c) == c \in regWait \/ rPc[c] = "unreg" \/ sPc[c] = "unreg"

\* The loop is back in its select, with the process still running.
HubWaiting == hubPc = "select" /\ Alive

\* C36: while the hub loop is running there is no deadlock: the handling of a
\* relayed envelope always ends with the loop back in its select, and every
\* session task blocked on sending register or unregister is eventually
\* received by the loop, which goes on running (or the hub is shut down).
C36_HubLoopNeverStuck ==
    /\ (hubPc = "bcast" /\ HubRunning) ~> (HubWaiting \/ ~HubRunning)
    /\ \A c \in Clients :
          (BlockedOnHub(c) /\ HubRunning) ~>
              ((~BlockedOnHub(c) /\ HubWaiting) \/ ~HubRunning)

\* C37: Shutdown() may be called more than once and at any time: every call,
\* the second one and one made after the loop has exited included, causes no
\* failure and leaves the hub shut down, the loop's position untouched.
C37_ShutdownRepeatable ==
    [][Shutdown => (panicked' = "none" /\ shutdown' /\ hubPc' = hubPc)]_vars

============================================================================
